---- MODULE Spec2Model ----
(***************************************************************************)
(* State-machine model of the WhatsApp relay API (elimquijano/whatsapp-api)*)
(*                                                                         *)
(* The repository holds two deployable variants of the same server:       *)
(*   - src/app.js (lines 1-355): per-recipient sends in a for...of loop,   *)
(*   - src/unnamed/part_002: per-recipient sends as promises joined with   *)
(*     Promise.all, every promise but the first sleeping MESSAGE_SEND_DELAY*)
(*     before it sends.                                                    *)
(* The variable `variant` fixes which one runs.  Everything else (startup, *)
(* lifecycle callbacks, authenticateToken, the validation chain,           *)
(* parseNumbers, the summary) is the same code in both files.              *)
(*                                                                         *)
(* Lines 357-618 of src/app.js are an earlier, single-recipient version of *)
(* the script (a second copy of the top-level declarations, cut off before *)
(* its end); it has no batch dispatch and is not part of the model.        *)
(*                                                                         *)
(* Strings are sequences of one-character strings, so that split, trim and *)
(* the regular expression of parseNumbers are computed as the code does.   *)
(* A request runs atomically up to its handler's first await (Node runs a  *)
(* callback to completion); what the external client does (lifecycle       *)
(* events, the outcome of a send or of a media download, client.info) is   *)
(* chosen nondeterministically.                                            *)
(***************************************************************************)
EXTENDS Integers, Sequences, FiniteSets, TLC

VARIABLES
    variant,             \* which source file is deployed
    API_TOKEN,           \* process.env.API_TOKEN (Undefined when not set)
    proc,                \* "boot" | "running" | "exited"
    fatal,               \* what ended the process ("none" while it lives)
    isWhatsappReady,     \* app.js:38
    whatsappClientInfo,  \* app.js:39
    listening,           \* TRUE once startApiServer() has bound the port
    timers,              \* pending sleep() timers, in creation order
    reqs                 \* one record per HTTP request slot

vars == <<variant, API_TOKEN, proc, fatal, isWhatsappReady, whatsappClientInfo,
          listening, timers, reqs>>

-----------------------------------------------------------------------------
(* Bounds of the model                                                     *)

\* HTTP requests of one run
MaxReq == 1

\* comma-separated segments of a generated "numbers" string
MaxSegs == 3

\* HTTP requests of one run of the runs with concurrent requests
MaxConc == 2

-----------------------------------------------------------------------------
(* Program constants                                                       *)

MAX_MESSAGE_LENGTH == 1000

\* JavaScript's undefined, as a value comparable with the strings of the
\* model (no string contains the element "undefined")
Undefined == <<"undefined">>

\* the 9 of /^\d{9}$/ in parseNumbers
NumberDigits == 9

Digits == {"0", "1", "2", "3", "4", "5", "6", "7", "8", "9"}

\* characters String.prototype.trim removes
WhiteSpace == {" ", "\t", "\n"}

CountryPrefix == <<"5", "1">>

ChatSuffix == <<"@", "c", ".", "u", "s">>

-----------------------------------------------------------------------------
(* Pure helpers: the JavaScript string functions the code calls            *)

\* s.split(sep) for a one-character separator: the list of the segments
RECURSIVE SplitFrom(_, _, _, _)
SplitFrom(s, sep, i, cur) ==
    IF i > Len(s) THEN <<cur>>
    ELSE IF s[i] = sep THEN <<cur>> \o SplitFrom(s, sep, i + 1, <<>>)
    ELSE SplitFrom(s, sep, i + 1, Append(cur, s[i]))

Split(s, sep) == SplitFrom(s, sep, 1, <<>>)

RECURSIVE TrimStart(_)
TrimStart(s) ==
    IF s # <<>> /\ Head(s) \in WhiteSpace THEN TrimStart(Tail(s)) ELSE s

RECURSIVE TrimEnd(_)
TrimEnd(s) ==
    IF s # <<>> /\ s[Len(s)] \in WhiteSpace
    THEN TrimEnd(SubSeq(s, 1, Len(s) - 1))
    ELSE s

\* num.trim()
Trim(s) == TrimEnd(TrimStart(s))

\* /^\d{9}$/.test(num)
IsNineDigits(s) ==
    /\ Len(s) = NumberDigits
    /\ \A i \in 1..Len(s) : s[i] \in Digits

AddPrefix(num) == CountryPrefix \o num

\* .map((num) => num.trim())
RECURSIVE TrimAll(_)
TrimAll(segs) ==
    IF segs = <<>> THEN <<>> ELSE <<Trim(Head(segs))>> \o TrimAll(Tail(segs))

\* mutant of KeepValid: a segment that occurs again later in the list is
\* dropped, so that the result holds every number once
RECURSIVE KeepValidUnique(_)
KeepValidUnique(segs) ==
    IF segs = <<>> THEN <<>>
    ELSE (IF /\ IsNineDigits(Head(segs))
             /\ \A j \in 1..Len(Tail(segs)) : Tail(segs)[j] # Head(segs)
          THEN <<Head(segs)>> ELSE <<>>)
         \o KeepValidUnique(Tail(segs))

\* .filter((num) => /^\d{9}$/.test(num))
RECURSIVE KeepValid(_)
KeepValid(segs) ==
    IF segs = <<>> THEN <<>>
    ELSE (IF IsNineDigits(Head(segs)) THEN <<Head(segs)>> ELSE <<>>)
         \o KeepValid(Tail(segs))

\* numbers.map((num) => `51${num}`)
RECURSIVE PrefixAll(_)
PrefixAll(nums) ==
    IF nums = <<>> THEN <<>> ELSE <<AddPrefix(Head(nums))>> \o PrefixAll(Tail(nums))

\* function parseNumbers(input)
parseNumbers(input) ==
    IF input = Undefined \/ input = <<>> THEN <<>>
    ELSE LET numbers == KeepValid(TrimAll(Split(input, ",")))
             formattedNumbers == PrefixAll(numbers)
         IN  IF Len(formattedNumbers) > 0 THEN formattedNumbers ELSE <<>>

\* const chatId = `${number}@c.us`
ChatId(number) == number \o ChatSuffix

-----------------------------------------------------------------------------
(* The inputs of the model                                                 *)

\* the secret of the deployment's .env file
Secret == <<"s", "3">>

Bearer == <<"B", "e", "a", "r", "e", "r">>

Basic == <<"B", "a", "s", "i", "c">>

\* values of the Authorization header (Undefined: no such header)
Headers ==
    { Undefined,                         \* no header
      <<>>,                              \* "Authorization:" with an empty value
      Bearer,                            \* "Bearer"
      Secret,                            \* "s3": the secret alone
      Bearer \o <<" ", "x">>,            \* "Bearer x"
      Bearer \o <<" ">> \o Secret,       \* "Bearer s3"
      Basic \o <<" ">> \o Secret,        \* "Basic s3"
      Bearer \o <<" ", " ">> \o Secret } \* "Bearer  s3"

GoodHeader == Bearer \o <<" ">> \o Secret

NumA == <<"9", "8", "7", "6", "5", "4", "3", "2", "1">>

NumB == <<"1", "2", "3", "4", "5", "6", "7", "8", "9">>

\* values of the body's "numbers" field
NumbersInputs ==
    { Undefined,
      <<>>,                                                  \* ""
      <<"a", "b", "c", ",", " ", "1", "2", "3", "4", "5">>,  \* "abc, 12345"
      NumA,                                                  \* one recipient
      NumA \o <<",", " ">> \o NumB,                          \* two
      <<" ">> \o NumA \o <<" ", ",", "x", ",">> \o NumB \o <<",">> \o NumA }
                                           \* three, one twice, one bad segment

\* a JavaScript string of which the code reads only the length and the
\* truthiness; the content goes to client.sendMessage untouched
Msg(n) == [defined |-> TRUE, length |-> n]

NoMsg == [defined |-> FALSE, length |-> 0]

MessageInputs ==
    {NoMsg, Msg(0), Msg(MAX_MESSAGE_LENGTH), Msg(MAX_MESSAGE_LENGTH + 1)}

Url == <<"u">>

Base64 == <<"b">>

Mime == <<"m">>

\* the (mediaUrl, mediaBase64, mimetype) fields of a /send-media body
MediaInputs ==
    { [mediaUrl |-> Undefined, mediaBase64 |-> Undefined, mimetype |-> Undefined],
      [mediaUrl |-> Url,       mediaBase64 |-> Undefined, mimetype |-> Undefined],
      [mediaUrl |-> Undefined, mediaBase64 |-> Base64,    mimetype |-> Mime],
      [mediaUrl |-> Undefined, mediaBase64 |-> Base64,    mimetype |-> Undefined] }

NoMedia == [mediaUrl |-> Undefined, mediaBase64 |-> Undefined, mimetype |-> Undefined]

Body(numbers, message, m) ==
    [numbers |-> numbers, message |-> message, mediaUrl |-> m.mediaUrl,
     mediaBase64 |-> m.mediaBase64, mimetype |-> m.mimetype]

EmptyBody == Body(Undefined, NoMsg, NoMedia)

\* a body that passes every check of both send routes
GoodBody == Body(NumA, Msg(MAX_MESSAGE_LENGTH), [NoMedia EXCEPT !.mediaUrl = Url])

ProtectedRoutes == {"POST /send-message", "POST /send-media"}

Request(route, header, body) == [route |-> route, header |-> header, body |-> body]

\* The requests the model sends: every header against both protected routes,
\* every body against both protected routes under the good header, and the
\* two routes that read neither header nor body.
Requests ==
    {Request(rt, h, GoodBody) : rt \in ProtectedRoutes, h \in Headers}
    \cup {Request("POST /send-message", GoodHeader, Body(n, m, NoMedia)) :
              n \in NumbersInputs, m \in MessageInputs}
    \cup {Request("POST /send-media", GoodHeader, Body(n, NoMsg, m)) :
              n \in NumbersInputs, m \in MediaInputs}
    \cup {Request(rt, Undefined, EmptyBody) : rt \in {"GET /status", "GET /other"}}

\* client.info at the moment the ready event is delivered
NullInfo == [isNull |-> TRUE]

InfoA == [isNull |-> FALSE, pushname |-> "bot", wid |-> [user |-> "51900000000"],
          platform |-> "android"]

ClientInfos == {NullInfo, InfoA}

-----------------------------------------------------------------------------
(* Responses                                                               *)

\* the clientInfo field of a response that has none
AbsentInfo == [isNull |-> TRUE, absent |-> TRUE]

\* res.status(status).json({success, ...}); success is "absent" in the bodies
\* that carry no such field (the 413 and the "no valid numbers" 400)
Resp(status, success) ==
    [status |-> status, success |-> success, clientInfo |-> AbsentInfo,
     hasSummary |-> FALSE, total_requested |-> 0, total_sent |-> 0,
     total_failed |-> 0, sent |-> <<>>, failed |-> <<>>]

NoResponse == Resp(0, "absent")

\* mutant of statusResponse: res.json(..) without res.status(..), so every
\* answer is a 200
statusResponseNoCode(ready, info) ==
    [Resp(200, IF ready THEN "true" ELSE "false")
        EXCEPT !.clientInfo =
            IF ready /\ info # NullInfo
            THEN [isNull |-> FALSE, pushname |-> info.pushname,
                  phoneNumber |-> info.wid.user, platform |-> info.platform]
            ELSE NullInfo]

\* GET /status
statusResponse(ready, info) ==
    [Resp(IF ready THEN 200 ELSE 503, IF ready THEN "true" ELSE "false")
        EXCEPT !.clientInfo =
            IF ready /\ info # NullInfo
            THEN [isNull |-> FALSE, pushname |-> info.pushname,
                  phoneNumber |-> info.wid.user, platform |-> info.platform]
            ELSE NullInfo]

\* the closing res.status(200).json({success: true, summary, results})
Summary(validNumbers, sent, failed) ==
    [Resp(200, "true") EXCEPT
        !.hasSummary = TRUE,
        !.total_requested = Len(validNumbers),
        !.total_sent = Len(sent),
        !.total_failed = Len(failed),
        !.sent = sent,
        !.failed = failed]

-----------------------------------------------------------------------------
(* Auth middleware                                                         *)

\* const token = authHeader && authHeader.split(" ")[1];
\* (undefined && x is undefined, "" && x is "")
TokenOf(authHeader) ==
    IF authHeader = Undefined THEN Undefined
    ELSE IF authHeader = <<>> THEN <<>>
    ELSE LET parts == Split(authHeader, " ")
         IN  IF Len(parts) >= 2 THEN parts[2] ELSE Undefined

\* mutant of authenticateToken: every request is let through
authenticateTokenAllowAll(authHeader, apiToken) == "next"

\* authenticateToken: the status it answers with, or "next"
authenticateToken(authHeader, apiToken) ==
    LET token == TokenOf(authHeader)
    IN  IF token = Undefined THEN "401"
        ELSE IF token = apiToken THEN "next"
        ELSE "403"

-----------------------------------------------------------------------------
(* The validation chains of the two send routes                            *)

\* !x for a string-or-undefined field
Falsy(x) == x = Undefined \/ x = <<>>

\* !message
NoMessage(message) == ~message.defined \/ message.length = 0

\* mutant of TooLong: >= for >
TooLongInclusive(message) == message.length >= MAX_MESSAGE_LENGTH

\* message.length > MAX_MESSAGE_LENGTH
TooLong(message) == message.length > MAX_MESSAGE_LENGTH

\* mutant of sendMessageChecks: the readiness check is missing
sendMessageChecksNoGate(ready, body) ==
    IF Falsy(body.numbers) \/ NoMessage(body.message) THEN Resp(400, "false")
    ELSE IF TooLong(body.message) THEN Resp(413, "absent")
    ELSE IF Len(parseNumbers(body.numbers)) = 0 THEN Resp(400, "absent")
    ELSE NoResponse

\* mutant of sendMessageChecks: the body is looked at before the session
sendMessageChecksBodyFirst(ready, body) ==
    IF Falsy(body.numbers) \/ NoMessage(body.message) THEN Resp(400, "false")
    ELSE IF TooLong(body.message) THEN Resp(413, "absent")
    ELSE IF ~ready THEN Resp(503, "false")
    ELSE IF Len(parseNumbers(body.numbers)) = 0 THEN Resp(400, "absent")
    ELSE NoResponse

\* POST /send-message up to the dispatch: the rejection, or NoResponse
sendMessageChecks(ready, body) ==
    IF ~ready THEN Resp(503, "false")
    ELSE IF Falsy(body.numbers) \/ NoMessage(body.message) THEN Resp(400, "false")
    ELSE IF TooLong(body.message) THEN Resp(413, "absent")
    ELSE IF Len(parseNumbers(body.numbers)) = 0 THEN Resp(400, "absent")
    ELSE NoResponse

\* mutant of sendMediaChecks: the readiness check is missing
sendMediaChecksNoGate(ready, body) ==
    IF Falsy(body.numbers) \/ (Falsy(body.mediaUrl) /\ Falsy(body.mediaBase64))
    THEN Resp(400, "false")
    ELSE IF Len(parseNumbers(body.numbers)) = 0 THEN Resp(400, "absent")
    ELSE NoResponse

\* mutant of sendMediaChecks: a body without valid numbers is answered 422
sendMediaChecksUnprocessable(ready, body) ==
    IF ~ready THEN Resp(503, "false")
    ELSE IF Falsy(body.numbers) \/ (Falsy(body.mediaUrl) /\ Falsy(body.mediaBase64))
         THEN Resp(400, "false")
    ELSE IF Len(parseNumbers(body.numbers)) = 0 THEN Resp(422, "absent")
    ELSE NoResponse

\* POST /send-media up to the preparation of the media
sendMediaChecks(ready, body) ==
    IF ~ready THEN Resp(503, "false")
    ELSE IF Falsy(body.numbers) \/ (Falsy(body.mediaUrl) /\ Falsy(body.mediaBase64))
         THEN Resp(400, "false")
    ELSE IF Len(parseNumbers(body.numbers)) = 0 THEN Resp(400, "absent")
    ELSE NoResponse

\* the if / else if / else that prepares the media
MediaSource(body) ==
    IF ~Falsy(body.mediaUrl) THEN "url"
    ELSE IF ~Falsy(body.mediaBase64) /\ ~Falsy(body.mimetype) THEN "inline"
    ELSE "none"

-----------------------------------------------------------------------------
(* One request slot                                                        *)

NoMediaObject == <<>>

\* pc: "idle" (not received), "resolving" (awaiting MessageMedia.fromUrl),
\* "dispatching" (inside the per-recipient sends), "done" (answered).
\* prom[i]: "pending" (the loop has not reached i), "sleeping" (awaiting
\* sleep), "inflight" (awaiting client.sendMessage), "sent", "failed".
\* ext[i] is what the external client did with send i ("none", "ok", "err"),
\* resolved what the media facility did with the request's media;
\* calls lists the invocations of client.sendMessage in the order made.
IdleReq ==
    [pc |-> "idle", req |-> Request("none", Undefined, EmptyBody),
     entered |-> FALSE, validNumbers |-> <<>>,
     media |-> NoMediaObject, resolveCount |-> 0, resolved |-> "none",
     prom |-> <<>>, ext |-> <<>>, calls |-> <<>>,
     sent |-> <<>>, failed |-> <<>>,
     response |-> NoResponse, nresponses |-> 0]

\* res.status(..).json(..)
Respond(q, resp) ==
    [q EXCEPT !.pc = "done", !.response = resp, !.nresponses = @ + 1]

\* MessageMedia.fromUrl(..) is called / new MessageMedia(..) is constructed
BeginResolve(q) == [q EXCEPT !.resolveCount = @ + 1]

\* media = <the object the resolution produced>
SetMedia(q, source) ==
    [q EXCEPT !.media = <<"media", source, q.resolveCount>>, !.resolved = "ok"]

\* mutant of MediaForSend: the media is prepared again for every recipient
MediaPerRecipient(q, i) == <<"media", q.media[2], i>>

\* the media argument of client.sendMessage(chatId, media, sendOptions)
MediaForSend(q, i) == q.media

\* the second argument of client.sendMessage for recipient i
Content(q, i) ==
    IF q.req.route = "POST /send-message"
    THEN <<"text", q.req.body.message.length>>
    ELSE MediaForSend(q, i)

\* client.sendMessage(chatId, ...) is invoked for recipient i
Invoke(q, i) ==
    [q EXCEPT !.prom[i] = "inflight",
              !.calls = Append(@, [idx |-> i, to |-> ChatId(q.validNumbers[i]),
                                   content |-> Content(q, i)])]

\* the object pushed to / resolved into the result lists
Entry(q, i, status) == [to |-> ChatId(q.validNumbers[i]), status |-> status]

\* results.filter((r) => r.status === status)
RECURSIVE WithStatus(_, _)
WithStatus(results, status) ==
    IF results = <<>> THEN <<>>
    ELSE (IF Head(results).status = status THEN <<Head(results)>> ELSE <<>>)
         \o WithStatus(Tail(results), status)

Settled(q) == \A j \in 1..Len(q.prom) : q.prom[j] \in {"sent", "failed"}

\* the code after the sends: log, then the 200 summary
Finish(q) == Respond(q, Summary(q.validNumbers, q.sent, q.failed))

(* sequential variant: src/app.js *)

\* sentMessages.push({to, messageId, status: "sent"})
PushSent(q, i) == [q EXCEPT !.sent = Append(@, Entry(q, i, "sent"))]

\* mutant of PushFailed: unshift for push
PushFailedFront(q, i) == [q EXCEPT !.failed = <<Entry(q, i, "failed")>> \o @]

\* failedMessages.push({to, status: "failed", error})
PushFailed(q, i) == [q EXCEPT !.failed = Append(@, Entry(q, i, "failed"))]

\* the for...of loop moves on: the next recipient's send, or the summary
LoopNext(q, i) ==
    IF i < Len(q.validNumbers) THEN Invoke(q, i + 1) ELSE Finish(q)

\* mutant of SeqSettle: a failed send ends the request with a 500, as the
\* single-recipient handler of the first version of the server did
SeqSettleAbort(q, i, outcome) ==
    LET q1 == [q EXCEPT !.ext[i] = outcome,
                        !.prom[i] = IF outcome = "ok" THEN "sent" ELSE "failed"]
    IN  IF outcome = "ok"
        THEN LoopNext(PushSent(q1, i), i)
        ELSE Respond(PushFailed(q1, i), Resp(500, "false"))

\* mutant of SeqSettle: a send that failed is tried once more
SeqSettleRetry(q, i, outcome) ==
    LET q1 == [q EXCEPT !.ext[i] = outcome,
                        !.prom[i] = IF outcome = "ok" THEN "sent" ELSE "failed"]
    IN  IF outcome = "ok"
        THEN LoopNext(PushSent(q1, i), i)
        ELSE IF q.ext[i] = "none" THEN Invoke(q1, i)
        ELSE LoopNext(PushFailed(q1, i), i)

\* the await of iteration i settles
SeqSettle(q, i, outcome) ==
    LET q1 == [q EXCEPT !.ext[i] = outcome,
                        !.prom[i] = IF outcome = "ok" THEN "sent" ELSE "failed"]
    IN  IF outcome = "ok"
        THEN LoopNext(PushSent(q1, i), i)
        ELSE LoopNext(PushFailed(q1, i), i)

(* Promise.all variant: src/unnamed/part_002 *)

\* mutant of Results: only the promises that resolved to "sent" are kept
ResultsSentOnly(q) ==
    WithStatus([j \in 1..Len(q.prom) |-> Entry(q, j, q.prom[j])], "sent")

\* const results = await Promise.all(promises): the values in promise order
Results(q) ==
    [j \in 1..Len(q.prom) |-> Entry(q, j, q.prom[j])]

\* results.filter(..) twice, then the summary
Collect(q) ==
    Finish([q EXCEPT !.sent = WithStatus(Results(q), "sent"),
                     !.failed = WithStatus(Results(q), "failed")])

\* mutant of ParSettle: the promises settle and nothing joins them
ParSettleNoJoin(q, i, outcome) ==
    [q EXCEPT !.ext[i] = outcome,
              !.prom[i] = IF outcome = "ok" THEN "sent" ELSE "failed"]

\* promise i resolves; Promise.all resolves with the last of them
ParSettle(q, i, outcome) ==
    LET q1 == [q EXCEPT !.ext[i] = outcome,
                        !.prom[i] = IF outcome = "ok" THEN "sent" ELSE "failed"]
    IN  IF Settled(q1) THEN Collect(q1) ELSE q1

(* both variants *)

\* the synchronous start of the sends: the loop's first iteration, or
\* validNumbers.map(..) creating every promise (the first one sends at once,
\* the others await sleep(MESSAGE_SEND_DELAY))
StartDispatch(q, v) ==
    LET n == Len(q.validNumbers)
        q1 == [q EXCEPT !.pc = "dispatching",
                        !.ext = [i \in 1..n |-> "none"],
                        !.prom = [i \in 1..n |->
                                    IF v = "promiseAll" /\ i > 1
                                    THEN "sleeping" ELSE "pending"]]
    IN  Invoke(q1, 1)

\* the timers a request has just created, in creation order
RECURSIVE TimersFrom(_, _, _)
TimersFrom(r, q, i) ==
    IF i > Len(q.prom) THEN <<>>
    ELSE (IF q.prom[i] = "sleeping" THEN <<<<r, i>>>> ELSE <<>>)
         \o TimersFrom(r, q, i + 1)

\* mutant of MediaFailed: the catch logs the error and falls through to the
\* sends
MediaFailedFallsThrough(q) == StartDispatch(q, "sequential")

\* the catch of the media preparation
MediaFailed(q) == Respond(q, Resp(500, "false"))

HandleSendMessage(q, v, ready) ==
    LET c == sendMessageChecks(ready, q.req.body)
    IN  IF c # NoResponse THEN Respond(q, c)
        ELSE StartDispatch(
                 [q EXCEPT !.validNumbers = parseNumbers(q.req.body.numbers)],
                 v)

HandleSendMedia(q, v, ready) ==
    LET c == sendMediaChecks(ready, q.req.body)
        q1 == [q EXCEPT !.validNumbers = parseNumbers(q.req.body.numbers)]
        src == MediaSource(q.req.body)
    IN  IF c # NoResponse THEN Respond(q, c)
        ELSE IF src = "url" THEN [BeginResolve(q1) EXCEPT !.pc = "resolving"]
        ELSE IF src = "inline"
             THEN StartDispatch(SetMedia(BeginResolve(q1), "inline"), v)
        ELSE Respond(q1, Resp(400, "false"))

\* Express routing of one request, up to the handler's first await
Route(q, v, ready, info, apiToken) ==
    IF q.req.route = "GET /status"
    THEN Respond(q, statusResponse(ready, info))
    ELSE IF q.req.route \in ProtectedRoutes
    THEN LET a == authenticateToken(q.req.header, apiToken)
             q1 == [q EXCEPT !.entered = TRUE]
         IN  IF a = "401" THEN Respond(q, Resp(401, "false"))
             ELSE IF a = "403" THEN Respond(q, Resp(403, "false"))
             ELSE IF q.req.route = "POST /send-message"
                  THEN HandleSendMessage(q1, v, ready)
                  ELSE HandleSendMedia(q1, v, ready)
    ELSE Respond(q, Resp(404, "false"))

-----------------------------------------------------------------------------
(* The state machine                                                       *)

Variants == {"sequential", "promiseAll"}

Init ==
    /\ variant \in Variants
    /\ API_TOKEN \in {Undefined, <<>>, Secret}
    /\ proc = "boot"
    /\ fatal = "none"
    /\ isWhatsappReady = FALSE
    /\ whatsappClientInfo = NullInfo
    /\ listening = FALSE
    /\ timers = <<>>
    /\ reqs = [r \in 1..MaxReq |-> IdleReq]

\* The process ends: all it held (the listener, the timers, the handlers
\* awaiting a send and their responses) is gone; cause is the error logged
\* before it.
Terminate(cause) ==
    /\ proc' = "exited"
    /\ fatal' = cause
    /\ listening' = FALSE
    /\ timers' = <<>>
    /\ reqs' = [r \in DOMAIN reqs |-> IdleReq]
    /\ UNCHANGED <<variant, API_TOKEN>>

\* logger.error(..); process.exit(1): the two flags keep the value they had
\* when the process ended
Exit(cause) ==
    /\ Terminate(cause)
    /\ UNCHANGED <<isWhatsappReady, whatsappClientInfo>>

\* mutant of Boot: the script does not look at API_TOKEN
BootUnchecked ==
    /\ proc = "boot"
    /\ proc' = "running"
    /\ UNCHANGED <<variant, API_TOKEN, fatal, isWhatsappReady,
                   whatsappClientInfo, listening, timers, reqs>>

\* the top of the script: if (!API_TOKEN) process.exit(1); new Client(..);
\* the handlers are registered; client.initialize() is called
Boot ==
    /\ proc = "boot"
    /\ IF Falsy(API_TOKEN)
       THEN Exit("API_TOKEN")
       ELSE /\ proc' = "running"
            /\ UNCHANGED <<variant, API_TOKEN, fatal, isWhatsappReady,
                           whatsappClientInfo, listening, timers, reqs>>

\* client.initialize().catch(..): process.exit(1)
InitializeFails ==
    /\ proc = "running"
    /\ ~listening
    /\ Exit("initialize")

\* client.on("qr"), client.on("authenticated"), client.on("loading_screen"):
\* they log (and print the QR code) only
OnQr ==
    /\ proc = "running"
    /\ UNCHANGED vars

OnAuthenticated ==
    /\ proc = "running"
    /\ UNCHANGED vars

OnLoadingScreen ==
    /\ proc = "running"
    /\ UNCHANGED vars

\* mutant of OnAuthFailure: the failure is logged and the process goes on
OnAuthFailureLogged ==
    /\ proc = "running"
    /\ fatal' = "auth_failure"
    /\ UNCHANGED <<variant, API_TOKEN, proc, isWhatsappReady,
                   whatsappClientInfo, listening, timers, reqs>>

\* client.on("auth_failure"): process.exit(1)
OnAuthFailure ==
    /\ proc = "running"
    /\ Exit("auth_failure")

\* startApiServer(): app.listen(PORT) binds the port; a second listen on the
\* port the first server holds fails with EADDRINUSE, which the new server
\* emits on the next tick as an 'error' event nobody handles: the process
\* ends before any other callback runs
startApiServer(isListening) == IF isListening THEN "EADDRINUSE" ELSE "listening"

\* client.on("ready")
OnReady(info) ==
    /\ proc = "running"
    /\ isWhatsappReady' = TRUE
    /\ whatsappClientInfo' = info
    /\ IF startApiServer(listening) = "EADDRINUSE"
       THEN Terminate("EADDRINUSE")
       ELSE /\ listening' = TRUE
            /\ UNCHANGED <<variant, API_TOKEN, proc, fatal, timers, reqs>>

\* mutant of OnDisconnected: the handler clears the flag and keeps the info
OnDisconnectedKeepsInfo ==
    /\ proc = "running"
    /\ isWhatsappReady' = FALSE
    /\ UNCHANGED <<variant, API_TOKEN, proc, fatal, whatsappClientInfo,
                   listening, timers, reqs>>

\* mutant of OnDisconnected: the handler forgets the client info and leaves
\* the readiness flag as it is
OnDisconnectedKeepsFlag ==
    /\ proc = "running"
    /\ whatsappClientInfo' = NullInfo
    /\ UNCHANGED <<variant, API_TOKEN, proc, fatal, isWhatsappReady, listening,
                   timers, reqs>>

\* client.on("disconnected")
OnDisconnected ==
    /\ proc = "running"
    /\ isWhatsappReady' = FALSE
    /\ whatsappClientInfo' = NullInfo
    /\ UNCHANGED <<variant, API_TOKEN, proc, fatal, listening, timers, reqs>>

\* mutant of Arrive: a global send queue: a request received while another
\* batch is being sent waits for it
ArriveQueued(r, rq) ==
    /\ proc = "running"
    /\ listening
    /\ reqs[r].pc = "idle"
    /\ IF r = 1 THEN TRUE ELSE reqs[r - 1].pc # "idle"
    /\ LET q0 == [IdleReq EXCEPT !.req = rq]
           q1 == IF \E s \in DOMAIN reqs : reqs[s].pc = "dispatching"
                 THEN [q0 EXCEPT !.pc = "queued"]
                 ELSE Route(q0, variant, isWhatsappReady, whatsappClientInfo,
                            API_TOKEN)
       IN  /\ reqs' = [reqs EXCEPT ![r] = q1]
           /\ timers' = timers \o TimersFrom(r, q1, 1)
    /\ UNCHANGED <<variant, API_TOKEN, proc, fatal, isWhatsappReady,
                   whatsappClientInfo, listening>>

\* a request arrives and runs up to its handler's first await
Arrive(r, rq) ==
    /\ proc = "running"
    /\ listening
    /\ reqs[r].pc = "idle"
    /\ IF r = 1 THEN TRUE ELSE reqs[r - 1].pc # "idle"
    /\ LET q0 == [IdleReq EXCEPT !.req = rq]
           q1 == Route(q0, variant, isWhatsappReady, whatsappClientInfo, API_TOKEN)
       IN  /\ reqs' = [reqs EXCEPT ![r] = q1]
           /\ timers' = timers \o TimersFrom(r, q1, 1)
    /\ UNCHANGED <<variant, API_TOKEN, proc, fatal, isWhatsappReady,
                   whatsappClientInfo, listening>>

\* await MessageMedia.fromUrl(mediaUrl) settles
MediaSettled(r, ok) ==
    /\ proc = "running"
    /\ reqs[r].pc = "resolving"
    /\ LET q1 == IF ok
                 THEN StartDispatch(SetMedia(reqs[r], "url"), variant)
                 ELSE MediaFailed([reqs[r] EXCEPT !.resolved = "err"])
       IN  /\ reqs' = [reqs EXCEPT ![r] = q1]
           /\ timers' = timers \o TimersFrom(r, q1, 1)
    /\ UNCHANGED <<variant, API_TOKEN, proc, fatal, isWhatsappReady,
                   whatsappClientInfo, listening>>

\* the oldest sleep(MESSAGE_SEND_DELAY) timer fires: its promise sends
TimerFires ==
    /\ proc = "running"
    /\ timers # <<>>
    /\ LET r == Head(timers)[1]
           i == Head(timers)[2]
       IN  reqs' = [reqs EXCEPT ![r] = Invoke(@, i)]
    /\ timers' = Tail(timers)
    /\ UNCHANGED <<variant, API_TOKEN, proc, fatal, isWhatsappReady,
                   whatsappClientInfo, listening>>

\* mutant of SendSettled: sentMessages and failedMessages are arrays of the
\* module, shared by the handlers that are sending
SendSettledShared(r, i, outcome) ==
    /\ proc = "running"
    /\ reqs[r].pc = "dispatching"
    /\ i \in 1..Len(reqs[r].prom)
    /\ reqs[r].prom[i] = "inflight"
    /\ LET e == Entry(reqs[r], i, IF outcome = "ok" THEN "sent" ELSE "failed")
       IN  reqs' = [s \in DOMAIN reqs |->
                      IF s = r
                      THEN IF variant = "sequential"
                           THEN SeqSettle(reqs[s], i, outcome)
                           ELSE ParSettle(reqs[s], i, outcome)
                      ELSE IF reqs[s].pc # "dispatching" THEN reqs[s]
                      ELSE IF outcome = "ok"
                           THEN [reqs[s] EXCEPT !.sent = Append(@, e)]
                           ELSE [reqs[s] EXCEPT !.failed = Append(@, e)]]
    /\ UNCHANGED <<variant, API_TOKEN, proc, fatal, isWhatsappReady,
                   whatsappClientInfo, listening, timers>>

\* mutant of SendSettled: the catch of a failed send marks the session as
\* not ready
SendSettledDropsSession(r, i, outcome) ==
    /\ proc = "running"
    /\ reqs[r].pc = "dispatching"
    /\ i \in 1..Len(reqs[r].prom)
    /\ reqs[r].prom[i] = "inflight"
    /\ reqs' = [reqs EXCEPT ![r] =
                   IF variant = "sequential"
                   THEN SeqSettle(@, i, outcome)
                   ELSE ParSettle(@, i, outcome)]
    /\ isWhatsappReady' = (isWhatsappReady /\ outcome = "ok")
    /\ UNCHANGED <<variant, API_TOKEN, proc, fatal, whatsappClientInfo,
                   listening, timers>>

\* an awaited client.sendMessage settles: it resolved ("ok") or threw ("err")
SendSettled(r, i, outcome) ==
    /\ proc = "running"
    /\ reqs[r].pc = "dispatching"
    /\ i \in 1..Len(reqs[r].prom)
    /\ reqs[r].prom[i] = "inflight"
    /\ reqs' = [reqs EXCEPT ![r] =
                   IF variant = "sequential"
                   THEN SeqSettle(@, i, outcome)
                   ELSE ParSettle(@, i, outcome)]
    /\ UNCHANGED <<variant, API_TOKEN, proc, fatal, isWhatsappReady,
                   whatsappClientInfo, listening, timers>>

Next ==
    \/ Boot
    \/ InitializeFails
    \/ OnQr
    \/ OnAuthenticated
    \/ OnLoadingScreen
    \/ OnAuthFailure
    \/ \E info \in ClientInfos : OnReady(info)
    \/ OnDisconnected
    \/ \E r \in DOMAIN reqs : \E rq \in Requests : Arrive(r, rq)
    \/ \E r \in DOMAIN reqs : \E ok \in BOOLEAN : MediaSettled(r, ok)
    \/ TimerFires
    \/ \E r \in DOMAIN reqs : \E i \in 1..Len(reqs[r].prom) :
           \E outcome \in {"ok", "err"} : SendSettled(r, i, outcome)

Spec == Init /\ [][Next]_vars

-----------------------------------------------------------------------------
(* Vocabulary of the properties                                            *)

Slots == DOMAIN reqs

\* the request of slot r reached the per-recipient sends
Dispatched(q) == q.calls # <<>>

\* the indices of q's recipients whose send the external client settled as o
RECURSIVE IndicesWith(_, _, _)
IndicesWith(q, o, i) ==
    IF i > Len(q.ext) THEN <<>>
    ELSE (IF q.ext[i] = o THEN <<i>> ELSE <<>>) \o IndicesWith(q, o, i + 1)

\* the chat ids of the recipients whose send settled as o, in recipient order
RECURSIVE ChatIdsAt(_, _)
ChatIdsAt(q, idxs) ==
    IF idxs = <<>> THEN <<>>
    ELSE <<ChatId(q.validNumbers[Head(idxs)])>> \o ChatIdsAt(q, Tail(idxs))

\* the `to` fields of a result list, in list order
RECURSIVE ToList(_)
ToList(entries) ==
    IF entries = <<>> THEN <<>> ELSE <<Head(entries).to>> \o ToList(Tail(entries))

\* how many times client.sendMessage was invoked for recipient i
CallsFor(q, i) == Cardinality({k \in 1..Len(q.calls) : q.calls[k].idx = i})

-----------------------------------------------------------------------------
(* C1: in a batch dispatch a failed send never aborts the batch: every      *)
(* recipient of the validated sequence gets its send attempt, each failing  *)
(* recipient is recorded in `failed`, and the request is answered 200 with  *)
(* success=true whatever subset of the sends failed; while the batch is not *)
(* answered some send of it is still pending.                               *)
C1_FailureNeverAborts ==
    \A r \in Slots :
        LET q == reqs[r]
        IN  /\ (Dispatched(q) /\ q.pc = "done") =>
                /\ q.response.status = 200
                /\ q.response.success = "true"
                /\ q.nresponses = 1
                /\ \A i \in 1..Len(q.validNumbers) :
                       /\ CallsFor(q, i) = 1
                       /\ q.ext[i] \in {"ok", "err"}
                /\ ToList(q.response.failed)
                       = ChatIdsAt(q, IndicesWith(q, "err", 1))
            /\ (Dispatched(q) /\ q.pc # "done") =>
                /\ q.pc = "dispatching"
                /\ \E i \in 1..Len(q.prom) : q.prom[i] \in {"inflight", "sleeping"}

\* recipient 2 of 3 failed and the batch was answered (both variants, the
\* text route)
C1_Witness ==
    \E r \in Slots :
        /\ reqs[r].pc = "done"
        /\ reqs[r].req.route = "POST /send-message"
        /\ reqs[r].ext = <<"ok", "err", "ok">>
        /\ Len(reqs[r].response.sent) = 2

\* every send of a batch of three failed
C1_WitnessAllFailed ==
    \E r \in Slots :
        /\ reqs[r].pc = "done"
        /\ reqs[r].ext = <<"err", "err", "err">>

-----------------------------------------------------------------------------
(* C2: every dispatch summary answered with 200 has                         *)
(* total_sent + total_failed = total_requested, total_sent = len(sent),     *)
(* total_failed = len(failed) and total_requested = the number of validated *)
(* recipients, for every combination of send outcomes.                      *)
C2_SummaryCounts ==
    \A r \in Slots :
        LET q == reqs[r]
            s == q.response
        IN  (q.pc = "done" /\ s.hasSummary) =>
                /\ s.status = 200
                /\ s.total_sent + s.total_failed = s.total_requested
                /\ s.total_sent = Len(s.sent)
                /\ s.total_failed = Len(s.failed)
                /\ s.total_requested = Len(parseNumbers(q.req.body.numbers))
                /\ s.total_sent = Len(IndicesWith(q, "ok", 1))
                /\ s.total_failed = Len(IndicesWith(q, "err", 1))

\* a summary of three recipients with sends of both outcomes
C2_Witness ==
    \E r \in Slots :
        /\ reqs[r].pc = "done"
        /\ reqs[r].response.hasSummary
        /\ reqs[r].response.total_requested = 3
        /\ reqs[r].response.total_sent = 1
        /\ reqs[r].response.total_failed = 2

-----------------------------------------------------------------------------
\* slot r receives its request in this step
ArrivesNow(r) == reqs[r].pc = "idle" /\ reqs'[r].pc # "idle"

(* C3: an authenticated /send-message or /send-media request whose handling *)
(* starts while the session is not ready is answered 503, once, and neither *)
(* client.sendMessage nor the media resolution is invoked for it, then or   *)
(* later, whatever its body.                                                *)
C3_NotReadyNoDispatch ==
    [][\A r \in Slots :
          /\ (ArrivesNow(r) /\ reqs'[r].entered /\ ~isWhatsappReady) =>
                /\ reqs'[r].pc = "done"
                /\ reqs'[r].response.status = 503
                /\ reqs'[r].nresponses = 1
                /\ reqs'[r].calls = <<>>
                /\ reqs'[r].resolveCount = 0
          /\ (reqs[r].entered /\ reqs[r].response.status = 503) =>
                /\ reqs'[r].calls = <<>>
                /\ reqs'[r].resolveCount = 0
                /\ reqs'[r].nresponses <= 1]_vars

\* a well-formed authenticated request of each route was answered 503
C3_Witness ==
    \E r \in Slots :
        /\ reqs[r].entered
        /\ reqs[r].req.route = "POST /send-message"
        /\ reqs[r].req.body.numbers = NumA
        /\ reqs[r].req.body.message = Msg(MAX_MESSAGE_LENGTH)
        /\ reqs[r].response.status = 503
        /\ ~isWhatsappReady

-----------------------------------------------------------------------------
(* C4: a /send-message request whose message is longer than                 *)
(* MAX_MESSAGE_LENGTH (1000) never causes a call of client.sendMessage, and *)
(* when it reaches the length check (authenticated, session ready, both     *)
(* fields present) it is answered 413; a message of exactly 1000 characters *)
(* is never answered 413.                                                   *)
C4_LengthLimit ==
    [][\A r \in Slots :
          LET q == reqs'[r]
              len == q.req.body.message.length
          IN  q.req.route = "POST /send-message" =>
                /\ len > MAX_MESSAGE_LENGTH => q.calls = <<>>
                /\ ( /\ ArrivesNow(r)
                     /\ q.entered
                     /\ isWhatsappReady
                     /\ ~Falsy(q.req.body.numbers)
                     /\ len > MAX_MESSAGE_LENGTH ) =>
                       /\ q.pc = "done"
                       /\ q.response.status = 413
                       /\ q.nresponses = 1
                /\ len = MAX_MESSAGE_LENGTH => q.response.status # 413]_vars

\* a message of 1001 characters to a valid recipient was answered 413
C4_Witness ==
    \E r \in Slots :
        /\ reqs[r].req.route = "POST /send-message"
        /\ reqs[r].req.body.message.length = MAX_MESSAGE_LENGTH + 1
        /\ Len(parseNumbers(reqs[r].req.body.numbers)) > 0
        /\ reqs[r].response.status = 413

\* a message of exactly 1000 characters was dispatched
C4_WitnessAtLimit ==
    \E r \in Slots :
        /\ reqs[r].req.route = "POST /send-message"
        /\ reqs[r].req.body.message.length = MAX_MESSAGE_LENGTH
        /\ reqs[r].response.status = 200

-----------------------------------------------------------------------------
\* the header carries no token segment: it is absent, or splitting it on
\* spaces gives fewer than two segments
NoTokenSegment(h) == h = Undefined \/ Len(Split(h, " ")) < 2

(* C5: on a protected route a request without Authorization header, or with *)
(* a header that has no token segment, is answered 401; one whose token is  *)
(* present but differs from the secret is answered 403; one whose token is  *)
(* the secret enters the route handler; in the first two cases the handler  *)
(* is never entered.                                                        *)
C5_AuthStatuses ==
    \A r \in Slots :
        LET q == reqs[r]
            h == q.req.header
        IN  (q.pc # "idle" /\ q.req.route \in ProtectedRoutes) =>
                IF NoTokenSegment(h)
                THEN q.response.status = 401 /\ ~q.entered
                ELSE IF Split(h, " ")[2] # API_TOKEN
                THEN q.response.status = 403 /\ ~q.entered
                ELSE q.entered

\* C5 without the header that is present with an empty value
C5_AuthStatusesNonEmptyHeader ==
    \A r \in Slots :
        LET q == reqs[r]
            h == q.req.header
        IN  (q.pc # "idle" /\ q.req.route \in ProtectedRoutes /\ h # <<>>) =>
                IF NoTokenSegment(h)
                THEN q.response.status = 401 /\ ~q.entered
                ELSE IF Split(h, " ")[2] # API_TOKEN
                THEN q.response.status = 403 /\ ~q.entered
                ELSE q.entered

-----------------------------------------------------------------------------
\* slot r receives a GET /status in this step
StatusNow(r) == ArrivesNow(r) /\ reqs'[r].req.route = "GET /status"

(* C6 as claimed: GET /status answers 503, success=false, clientInfo null   *)
(* whenever the session is not ready, and 200, success=true with a non-null *)
(* clientInfo whenever it is ready.                                         *)
C6_StatusAsClaimed ==
    [][\A r \in Slots :
          StatusNow(r) =>
              LET s == reqs'[r].response
              IN  IF isWhatsappReady
                  THEN s.status = 200 /\ s.success = "true" /\ s.clientInfo # NullInfo
                  ELSE s.status = 503 /\ s.success = "false" /\ s.clientInfo = NullInfo]_vars

(* C6 as amended: GET /status answers 503, success=false, clientInfo null   *)
(* whenever the session is not ready, and 200, success=true whenever it is  *)
(* ready, with a clientInfo that is non-null exactly when the client.info   *)
(* stored by the ready handler is non-null.                                 *)
C6_Status ==
    [][\A r \in Slots :
          StatusNow(r) =>
              LET s == reqs'[r].response
              IN  /\ reqs'[r].pc = "done"
                  /\ reqs'[r].nresponses = 1
                  /\ IF isWhatsappReady
                     THEN /\ s.status = 200
                          /\ s.success = "true"
                          /\ (s.clientInfo # NullInfo) <=> (whatsappClientInfo # NullInfo)
                          /\ whatsappClientInfo # NullInfo =>
                                /\ s.clientInfo.pushname = whatsappClientInfo.pushname
                                /\ s.clientInfo.phoneNumber = whatsappClientInfo.wid.user
                     ELSE /\ s.status = 503
                          /\ s.success = "false"
                          /\ s.clientInfo = NullInfo]_vars

\* /status answered 503 after a ready and a disconnected event
C6_Witness ==
    \E r \in Slots :
        /\ reqs[r].req.route = "GET /status"
        /\ reqs[r].response.status = 503
        /\ listening

\* /status answered 200 with the client's info
C6_WitnessReady ==
    \E r \in Slots :
        /\ reqs[r].req.route = "GET /status"
        /\ reqs[r].response.status = 200
        /\ reqs[r].response.clientInfo # NullInfo

-----------------------------------------------------------------------------
\* the sends of q that are awaiting the external client
InFlight(q) == {i \in 1..Len(q.prom) : q.prom[i] = "inflight"}

(* C7: within one dispatch call the recipients are sent to sequentially: at *)
(* most one client.sendMessage of the request is in flight at any time, and *)
(* the send for recipient i+1 is not started before the send for recipient  *)
(* i has succeeded or failed.                                               *)
C7_OneSendInFlight ==
    \A r \in Slots :
        LET q == reqs[r]
        IN  /\ Cardinality(InFlight(q)) <= 1
            /\ \A i \in 2..Len(q.prom) :
                   q.prom[i] \in {"inflight", "sent", "failed"}
                       => q.prom[i - 1] \in {"sent", "failed"}

\* C7 for the for...of loop of src/app.js alone
C7_OneSendInFlightSequential ==
    variant = "sequential" => C7_OneSendInFlight

-----------------------------------------------------------------------------
(* C8: within one dispatch call client.sendMessage is invoked for the       *)
(* recipients in the order of the validated sequence, and the `sent` and    *)
(* `failed` lists of the summary are the recipients whose send succeeded,   *)
(* respectively failed, in the order of the validated sequence, whatever    *)
(* the order in which the sends complete.                                   *)
C8_OrderPreserved ==
    \A r \in Slots :
        LET q == reqs[r]
        IN  /\ \A k \in 1..Len(q.calls) :
                   /\ q.calls[k].idx = k
                   /\ q.calls[k].to = ChatId(q.validNumbers[k])
            /\ (q.pc = "done" /\ q.response.hasSummary) =>
                   /\ ToList(q.response.sent)
                          = ChatIdsAt(q, IndicesWith(q, "ok", 1))
                   /\ ToList(q.response.failed)
                          = ChatIdsAt(q, IndicesWith(q, "err", 1))
                   /\ \A k \in 1..Len(q.response.sent) :
                          q.response.sent[k].status = "sent"
                   /\ \A k \in 1..Len(q.response.failed) :
                          q.response.failed[k].status = "failed"

\* three recipients, the first and the third failed, under Promise.all
C8_Witness ==
    \E r \in Slots :
        /\ variant = "promiseAll"
        /\ reqs[r].pc = "done"
        /\ reqs[r].ext = <<"err", "ok", "err">>
        /\ Len(reqs[r].response.failed) = 2

\* under Promise.all the second send completed while the first is in flight
C8_WitnessOutOfOrder ==
    \E r \in Slots :
        /\ reqs[r].pc = "dispatching"
        /\ reqs[r].prom[1] = "inflight"
        /\ Len(reqs[r].prom) >= 2
        /\ reqs[r].prom[2] = "failed"

-----------------------------------------------------------------------------
(* C9: for a /send-media request the media is resolved exactly once, before *)
(* the first per-recipient send and whatever the number of recipients, and  *)
(* every send of the request is given that one resolved media object.       *)
C9_MediaResolvedOnce ==
    \A r \in Slots :
        LET q == reqs[r]
        IN  q.req.route = "POST /send-media" =>
                /\ q.resolveCount <= 1
                /\ Dispatched(q) =>
                       /\ q.resolveCount = 1
                       /\ q.resolved = "ok"
                       /\ q.media # NoMediaObject
                       /\ \A k \in 1..Len(q.calls) : q.calls[k].content = q.media

\* a media batch of three recipients was sent and answered
C9_Witness ==
    \E r \in Slots :
        /\ reqs[r].req.route = "POST /send-media"
        /\ reqs[r].pc = "done"
        /\ Len(reqs[r].calls) = 3
        /\ reqs[r].resolveCount = 1

-----------------------------------------------------------------------------
(* C10: if the media resolution of a /send-media request fails, the request *)
(* gets a single 500 response and client.sendMessage is invoked for none of *)
(* its recipients.                                                          *)
C10_MediaFailureAtomic ==
    \A r \in Slots :
        LET q == reqs[r]
        IN  q.resolved = "err" =>
                /\ q.pc = "done"
                /\ q.response.status = 500
                /\ q.response.success = "false"
                /\ q.nresponses = 1
                /\ q.calls = <<>>
                /\ \A i \in 1..Len(q.prom) : q.prom[i] \notin {"inflight", "sleeping"}

\* the media of a batch of three recipients could not be fetched
C10_Witness ==
    \E r \in Slots :
        /\ reqs[r].resolved = "err"
        /\ Len(reqs[r].validNumbers) = 3
        /\ reqs[r].response.status = 500

-----------------------------------------------------------------------------
(* parseNumbers over generated inputs                                       *)

\* the segments the generated "numbers" strings are built from
ParseSegments ==
    { NumA,
      NumB,
      <<" ">> \o NumA \o <<"\t">>,                         \* padded
      <<"1", "2", "3", "4", "5", "6", "7", "8">>,          \* 8 digits
      NumB \o <<"0">>,                                     \* 10 digits
      <<"9", "8", "7", "6", "5", "4", "3", "2", "x">>,     \* 9 characters, one a letter
      <<>> }                                               \* empty segment

\* segs.join(",")
RECURSIVE JoinCsv(_)
JoinCsv(segs) ==
    IF Len(segs) = 1 THEN segs[1]
    ELSE segs[1] \o <<",">> \o JoinCsv(Tail(segs))

\* undefined, and every string of 1..MaxSegs segments (the empty string is
\* the string of one empty segment)
ParseInputs ==
    {Undefined}
    \cup {JoinCsv(ss) : ss \in UNION {[1..n -> ParseSegments] : n \in 1..MaxSegs}}

\* a /send-message request that passes every check before parseNumbers
ParseRequest(input) ==
    Request("POST /send-message", GoodHeader, Body(input, Msg(1), NoMedia))

\* the server is up with a ready session and has received one request whose
\* handler has not run yet
InitParse ==
    /\ variant \in Variants
    /\ API_TOKEN = Secret
    /\ proc = "running"
    /\ fatal = "none"
    /\ isWhatsappReady = TRUE
    /\ whatsappClientInfo = InfoA
    /\ listening = TRUE
    /\ timers = <<>>
    /\ \E input \in ParseInputs :
           reqs = [r \in {1} |-> [IdleReq EXCEPT !.req = ParseRequest(input)]]

\* the handler of the received request runs up to its first await:
\* const validNumbers = parseNumbers(numbersString), the 400 or the first send
HandleReceived(r) ==
    /\ proc = "running"
    /\ listening
    /\ reqs[r].pc = "idle"
    /\ reqs[r].req.route # "none"
    /\ LET q1 == Route(reqs[r], variant, isWhatsappReady, whatsappClientInfo,
                       API_TOKEN)
       IN  /\ reqs' = [reqs EXCEPT ![r] = q1]
           /\ timers' = timers \o TimersFrom(r, q1, 1)
    /\ UNCHANGED <<variant, API_TOKEN, proc, fatal, isWhatsappReady,
                   whatsappClientInfo, listening>>

NextParse == \E r \in DOMAIN reqs : HandleReceived(r)

SpecParse == InitParse /\ [][NextParse]_vars

\* the comma-separated segments of a "numbers" string, trimmed
SegmentAt(input, i) == Trim(Split(input, ",")[i])

\* the positions of the segments of exactly 9 digits
KeptAt(input) ==
    IF input = Undefined THEN {}
    ELSE {i \in 1..Len(Split(input, ",")) : IsNineDigits(SegmentAt(input, i))}

\* the position of the k-th kept segment
KthKept(input, k) ==
    CHOOSE i \in KeptAt(input) :
        Cardinality({j \in KeptAt(input) : j <= i}) = k

(* C11: parseNumbers(input) is, in input order and with duplicates kept,    *)
(* the sequence of the comma-separated segments of input that after         *)
(* trimming are exactly 9 decimal digits, each prefixed with "51": the k-th *)
(* result is "51" followed by the k-th such segment, every result is "51"   *)
(* and 9 digits, and the handler dispatches to exactly that sequence.       *)
C11_ParseNumbers ==
    \A r \in Slots :
        LET input == reqs[r].req.body.numbers
            out == parseNumbers(input)
        IN  /\ Len(out) = Cardinality(KeptAt(input))
            /\ \A k \in 1..Len(out) :
                   /\ out[k] = <<"5", "1">> \o SegmentAt(input, KthKept(input, k))
                   /\ Len(out[k]) = 11
                   /\ \A j \in 3..11 : out[k][j] \in Digits
            /\ reqs[r].pc = "dispatching" =>
                   /\ reqs[r].validNumbers = out
                   /\ reqs[r].calls[1].to = out[1] \o ChatSuffix

\* "987654321,<bad>,987654321" with any padding was parsed and dispatched:
\* the duplicate is kept, the bad segment is dropped
C11_Witness ==
    \E r \in Slots :
        /\ reqs[r].pc = "dispatching"
        /\ Len(Split(reqs[r].req.body.numbers, ",")) = 3
        /\ reqs[r].validNumbers = <<CountryPrefix \o NumA, CountryPrefix \o NumA>>
        /\ ~IsNineDigits(SegmentAt(reqs[r].req.body.numbers, 2))

-----------------------------------------------------------------------------
\* the request is a /send-message whose two fields are present and whose
\* message is over the limit: it is answered before its numbers are parsed
StoppedByLength(rq) ==
    /\ rq.route = "POST /send-message"
    /\ ~Falsy(rq.body.numbers)
    /\ rq.body.message.defined
    /\ rq.body.message.length > MAX_MESSAGE_LENGTH

\* the fields a send route requires besides "numbers" are present
OtherFieldsPresent(rq) ==
    IF rq.route = "POST /send-message"
    THEN rq.body.message.defined /\ rq.body.message.length > 0
    ELSE ~Falsy(rq.body.mediaUrl) \/ ~Falsy(rq.body.mediaBase64)

(* C12: a send request (either route) whose "numbers" parse to the empty    *)
(* sequence is answered as soon as it is received, without a call of        *)
(* client.sendMessage or a media resolution, and an answered request makes  *)
(* no call afterwards; when its handling starts with a ready session (and   *)
(* it is not a /send-message stopped earlier by the length check) the       *)
(* answer is a 400, given once.  A request whose "numbers" mix malformed    *)
(* and valid segments and that passes the other checks is not rejected: it  *)
(* proceeds with exactly the valid ones.                                    *)
C12_EmptyParseRejected ==
    [][\A r \in Slots :
          /\ reqs[r].pc = "done" =>
                /\ Len(reqs'[r].calls) <= Len(reqs[r].calls)
                /\ reqs'[r].resolveCount <= reqs[r].resolveCount
          /\ (ArrivesNow(r) /\ reqs'[r].req.route \in ProtectedRoutes) =>
                LET q == reqs'[r]
                    out == parseNumbers(q.req.body.numbers)
                IN  IF out = <<>>
                    THEN /\ q.pc = "done"
                         /\ q.calls = <<>>
                         /\ q.resolveCount = 0
                         /\ q.nresponses = 1
                         /\ (q.entered /\ isWhatsappReady /\ ~StoppedByLength(q.req))
                                => q.response.status = 400
                    ELSE ( /\ q.entered
                           /\ isWhatsappReady
                           /\ OtherFieldsPresent(q.req)
                           /\ ~StoppedByLength(q.req)
                           /\ \/ q.req.route = "POST /send-message"
                              \/ MediaSource(q.req.body) # "none" ) =>
                             /\ q.pc \in {"dispatching", "resolving"}
                             /\ q.validNumbers = out
                             /\ q.nresponses = 0]_vars

\* "abc, 12345" reached parseNumbers on the media route and was answered with the
\* 400 of the emptiness check (the one body without a success field)
C12_Witness ==
    \E r \in Slots :
        /\ reqs[r].req.route = "POST /send-media"
        /\ ~Falsy(reqs[r].req.body.numbers)
        /\ parseNumbers(reqs[r].req.body.numbers) = <<>>
        /\ reqs[r].response.status = 400
        /\ reqs[r].response.success = "absent"

\* " A ,x,B,A" was dispatched to A, B, A
C12_WitnessMixed ==
    \E r \in Slots :
        /\ reqs[r].pc = "dispatching"
        /\ Len(Split(reqs[r].req.body.numbers, ",")) = 4
        /\ Len(reqs[r].validNumbers) = 3

-----------------------------------------------------------------------------
\* nothing of the process is alive: no listener, no timer, no request being
\* handled or answered, no send awaiting the external client
NothingAlive ==
    /\ ~listening
    /\ timers = <<>>
    /\ \A r \in Slots : reqs[r] = IdleReq

(* C13: an auth_failure event is process-fatal: in every state after its    *)
(* delivery, whatever the session state it arrived in, the process has      *)
(* exited, nothing listens, no request is being handled or answered and no  *)
(* send is in flight.                                                       *)
C13_AuthFailureFatal ==
    fatal = "auth_failure" =>
        /\ proc = "exited"
        /\ NothingAlive

\* auth_failure was delivered to a process whose session was ready
C13_Witness ==
    /\ fatal = "auth_failure"
    /\ proc = "exited"
    /\ isWhatsappReady
    /\ whatsappClientInfo = InfoA

\* auth_failure was delivered before the first ready event
C13_WitnessNotReady ==
    /\ fatal = "auth_failure"
    /\ ~isWhatsappReady

-----------------------------------------------------------------------------
(* C14: when API_TOKEN is absent (or empty) at startup the process never    *)
(* runs the client: in every state of such a run the process is booting or  *)
(* has exited on the API_TOKEN error, no lifecycle event has been handled   *)
(* (the flags have their initial values), nothing listens and no request is *)
(* handled.                                                                 *)
C14_NoTokenNoService ==
    Falsy(API_TOKEN) =>
        /\ proc \in {"boot", "exited"}
        /\ fatal = (IF proc = "exited" THEN "API_TOKEN" ELSE "none")
        /\ ~isWhatsappReady
        /\ whatsappClientInfo = NullInfo
        /\ NothingAlive

\* the process exited on the missing API_TOKEN
C14_Witness ==
    /\ API_TOKEN = Undefined
    /\ proc = "exited"
    /\ fatal = "API_TOKEN"

-----------------------------------------------------------------------------
\* client.sendMessage is invoked for the request of slot r in this step
SendStarts(r) == Len(reqs'[r].calls) > Len(reqs[r].calls)

(* C15 as claimed: client.sendMessage is invoked only while the session is  *)
(* ready: no send is started after a disconnected event and before the next *)
(* ready event.                                                             *)
C15_SendsOnlyWhileReady ==
    [][\A r \in Slots : SendStarts(r) => isWhatsappReady]_vars

(* C15 as amended: the session gate is checked once, when the handling of   *)
(* the request starts: a request is taken into dispatch (or into the media  *)
(* resolution) only if the session is ready when it is received, and every  *)
(* send started later belongs to a request taken in that way, whatever the  *)
(* session state has become meanwhile.                                      *)
C15_GateAtEntry ==
    [][\A r \in Slots :
          /\ (ArrivesNow(r) /\ reqs'[r].pc \in {"dispatching", "resolving"})
                => isWhatsappReady
          /\ (SendStarts(r) /\ ~ArrivesNow(r))
                => reqs[r].pc \in {"dispatching", "resolving"}
          /\ (SendStarts(r) /\ ArrivesNow(r)) => isWhatsappReady]_vars

\* a batch taken while the session was ready is still sending after the
\* session was disconnected
C15_Witness ==
    \E r \in Slots :
        /\ reqs[r].pc = "dispatching"
        /\ ~isWhatsappReady
        /\ Len(reqs[r].calls) >= 2
        /\ \E i \in 1..Len(reqs[r].prom) : reqs[r].prom[i] = "inflight"

-----------------------------------------------------------------------------
(* C16: the handler of a protected route is entered only for a request      *)
(* whose Authorization header is exactly "Bearer " followed by the          *)
(* configured secret: the secret under another scheme word, or anywhere     *)
(* else in the header, is not allowed.                                      *)
C16_BearerOnly ==
    \A r \in Slots :
        reqs[r].entered => reqs[r].req.header = Bearer \o <<" ">> \o API_TOKEN

\* C16 for the position of the secret alone: only a header whose second
\* space-separated segment is the secret is allowed
C16_SecondSegmentOnly ==
    \A r \in Slots :
        reqs[r].entered =>
            /\ Len(Split(reqs[r].req.header, " ")) >= 2
            /\ Split(reqs[r].req.header, " ")[2] = API_TOKEN

-----------------------------------------------------------------------------
\* how many entries of a sequence equal x
Occurrences(seq, x) == Cardinality({k \in 1..Len(seq) : seq[k] = x})

(* C17: within one dispatch client.sendMessage is invoked at most once per  *)
(* entry of the validated sequence, and exactly once per entry when the     *)
(* batch is answered: a settled send (failed or sent) is never invoked      *)
(* again, and a recipient that occurs k times in the sequence gets exactly  *)
(* k sends.                                                                 *)
C17_OncePerEntry ==
    \A r \in Slots :
        LET q == reqs[r]
        IN  /\ Len(q.calls) <= Len(q.validNumbers)
            /\ \A i \in 1..Len(q.prom) :
                   /\ CallsFor(q, i) <= 1
                   /\ q.prom[i] \in {"inflight", "sent", "failed"} => CallsFor(q, i) = 1
                   /\ q.prom[i] \in {"pending", "sleeping"} => CallsFor(q, i) = 0
            /\ (q.pc = "done" /\ q.response.hasSummary) =>
                   /\ Len(q.calls) = Len(q.validNumbers)
                   /\ \A i \in 1..Len(q.validNumbers) :
                          Occurrences(ToList(q.calls), ChatId(q.validNumbers[i]))
                              = Occurrences(q.validNumbers, q.validNumbers[i])

\* a batch to A, B, A was answered after three sends, two of them to A, the
\* first of which failed
C17_Witness ==
    \E r \in Slots :
        /\ reqs[r].pc = "done"
        /\ Len(reqs[r].validNumbers) = 3
        /\ reqs[r].validNumbers[1] = reqs[r].validNumbers[3]
        /\ Len(reqs[r].calls) = 3
        /\ Occurrences(ToList(reqs[r].calls), ChatId(CountryPrefix \o NumA)) = 2
        /\ reqs[r].ext[1] = "err"

-----------------------------------------------------------------------------
\* the step is the delivery of a ready event
ReadyEvent == \E info \in ClientInfos : OnReady(info)

(* C18: the readiness flag is false initially, becomes (or stays) true on a *)
(* ready event and false on a disconnected event, is left as it is by the   *)
(* qr, authenticated and loading_screen events, and changes in no other     *)
(* way: it goes from false to true only on a ready event and from true to   *)
(* false only on a disconnected event.                                      *)
C18_SessionTransitions ==
    /\ ~isWhatsappReady
    /\ [][/\ ReadyEvent => isWhatsappReady'
          /\ OnDisconnected => ~isWhatsappReady'
          /\ (OnQr \/ OnAuthenticated \/ OnLoadingScreen)
                => isWhatsappReady' = isWhatsappReady
          /\ (~isWhatsappReady /\ isWhatsappReady') => ReadyEvent
          /\ (isWhatsappReady /\ ~isWhatsappReady') => OnDisconnected]_vars

\* the session went NotReady -> Ready -> NotReady: the server listens (a ready
\* event was handled) and the flag is false again
C18_Witness ==
    /\ proc = "running"
    /\ listening
    /\ ~isWhatsappReady

-----------------------------------------------------------------------------
\* the step handles an HTTP request: the state of some request changes and
\* the process lives on
RequestStep == proc' = "running" /\ \E r \in Slots : reqs'[r] # reqs[r]

(* C19: the readiness flag and the client info are written only by the      *)
(* ready and disconnected callbacks: every step of the handling of an HTTP  *)
(* request (/status, a send route, an auth rejection, a 404, the settling   *)
(* of a send or of a media resolution, a failed send included) leaves both  *)
(* unchanged, and every step that changes one of them is a ready or a       *)
(* disconnected event.                                                      *)
C19_RequestsLeaveSession ==
    [][/\ RequestStep => UNCHANGED <<isWhatsappReady, whatsappClientInfo>>
       /\ (isWhatsappReady' # isWhatsappReady \/ whatsappClientInfo' # whatsappClientInfo)
             => (ReadyEvent \/ OnDisconnected)]_vars

\* every send of a batch of three failed, the batch was answered, and the
\* session is still ready with its client info
C19_Witness ==
    \E r \in Slots :
        /\ reqs[r].pc = "done"
        /\ reqs[r].ext = <<"err", "err", "err">>
        /\ isWhatsappReady
        /\ whatsappClientInfo = InfoA

-----------------------------------------------------------------------------
\* the requests of the runs checked for progress: requests that pass every
\* check, to one recipient, to three (one of them twice), and with a media
\* that has to be fetched
LiveRequests ==
    { Request("POST /send-message", GoodHeader, Body(NumA, Msg(1), NoMedia)),
      Request("POST /send-message", GoodHeader,
              Body(<<" ">> \o NumA \o <<" ", ",", "x", ",">> \o NumB \o <<",">> \o NumA,
                   Msg(MAX_MESSAGE_LENGTH), NoMedia)),
      Request("POST /send-media", GoodHeader,
              Body(NumA \o <<",", " ">> \o NumB, NoMsg,
                   [NoMedia EXCEPT !.mediaUrl = Url])) }

\* Next with the requests drawn from LiveRequests
NextLive ==
    \/ Boot
    \/ InitializeFails
    \/ OnQr
    \/ OnAuthenticated
    \/ OnLoadingScreen
    \/ OnAuthFailure
    \/ \E info \in ClientInfos : OnReady(info)
    \/ OnDisconnected
    \/ \E r \in DOMAIN reqs : \E rq \in LiveRequests : Arrive(r, rq)
    \/ \E r \in DOMAIN reqs : \E ok \in BOOLEAN : MediaSettled(r, ok)
    \/ TimerFires
    \/ \E r \in DOMAIN reqs : \E i \in 1..Len(reqs[r].prom) :
           \E outcome \in {"ok", "err"} : SendSettled(r, i, outcome)

(* The server under the scheduling of Node and the assumption that the      *)
(* external client settles what it was asked: a timer that is due fires, an *)
(* awaited client.sendMessage resolves or throws, an awaited                *)
(* MessageMedia.fromUrl resolves or throws.                                 *)
LiveSpec ==
    /\ Init
    /\ [][NextLive]_vars
    /\ WF_vars(TimerFires)
    /\ \A r \in 1..MaxReq :
           /\ WF_vars(\E i \in 1..Len(reqs[r].prom) :
                          \E outcome \in {"ok", "err"} : SendSettled(r, i, outcome))
           /\ WF_vars(\E ok \in BOOLEAN : MediaSettled(r, ok))

\* the request of slot r was answered, once, with the summary of all its
\* validated recipients
AnsweredInFull(r) ==
    /\ reqs[r].pc = "done"
    /\ reqs[r].nresponses = 1
    /\ reqs[r].response.hasSummary
    /\ reqs[r].response.total_requested = Len(reqs[r].validNumbers)
    /\ Len(reqs[r].response.sent) + Len(reqs[r].response.failed)
           = Len(reqs[r].validNumbers)

(* C20 as claimed: once a dispatch has begun it runs to completion: if      *)
(* every send eventually succeeds or fails, the request is eventually       *)
(* answered, once, with a summary of all its validated recipients.          *)
C20_AlwaysAnswered ==
    \A r \in 1..MaxReq : (reqs[r].pc = "dispatching") ~> AnsweredInFull(r)

(* C20 as amended: once a dispatch has begun, and if every send eventually  *)
(* succeeds or fails, the request is eventually answered, once, with a      *)
(* summary of all its validated recipients, also when the session is        *)
(* disconnected meanwhile, unless the process ends first (auth_failure, or  *)
(* the listen error of a further ready event).                              *)
C20_AnsweredUnlessExit ==
    \A r \in 1..MaxReq :
        (reqs[r].pc = "dispatching") ~> (AnsweredInFull(r) \/ proc = "exited")

\* a batch of three was answered in full by a process whose session is
\* disconnected
C20_Witness ==
    \E r \in Slots :
        /\ AnsweredInFull(r)
        /\ Len(reqs[r].validNumbers) = 3
        /\ proc = "running"
        /\ ~isWhatsappReady

-----------------------------------------------------------------------------
(* Concurrent requests                                                      *)

\* the requests of the runs with concurrent requests: a text to A and B, and
\* a media to be fetched for B
ConcRequests ==
    { Request("POST /send-message", GoodHeader,
              Body(NumA \o <<",", " ">> \o NumB, Msg(1), NoMedia)),
      Request("POST /send-media", GoodHeader,
              Body(NumB, NoMsg,
                   [NoMedia EXCEPT !.mediaUrl = Url])) }

\* the state after construction, with MaxConc request slots
InitConc ==
    /\ variant \in Variants
    /\ API_TOKEN = Secret
    /\ proc = "boot"
    /\ fatal = "none"
    /\ isWhatsappReady = FALSE
    /\ whatsappClientInfo = NullInfo
    /\ listening = FALSE
    /\ timers = <<>>
    /\ reqs = [r \in 1..MaxConc |-> IdleReq]

\* Next with the requests drawn from ConcRequests
NextConc ==
    \/ Boot
    \/ InitializeFails
    \/ OnQr
    \/ OnAuthenticated
    \/ OnLoadingScreen
    \/ OnAuthFailure
    \/ \E info \in ClientInfos : OnReady(info)
    \/ OnDisconnected
    \/ \E r \in DOMAIN reqs : \E rq \in ConcRequests : Arrive(r, rq)
    \/ \E r \in DOMAIN reqs : \E ok \in BOOLEAN : MediaSettled(r, ok)
    \/ TimerFires
    \/ \E r \in DOMAIN reqs : \E i \in 1..Len(reqs[r].prom) :
           \E outcome \in {"ok", "err"} : SendSettled(r, i, outcome)

SpecConc == InitConc /\ [][NextConc]_vars

\* the step changes the state of the request of slot r, in a process that
\* lives on
Handles(r) == proc' = "running" /\ reqs'[r] # reqs[r]

(* C21: the batches of different requests are not coordinated: a valid      *)
(* request received by a ready session starts its work at once (a text      *)
(* request its first send, a media request the fetch of its media) whatever *)
(* the other requests are doing, a step of one request leaves every other   *)
(* request as it is, and in the for...of loop the settling of a send starts *)
(* the request's next send (or its answer) in the same step; so the sends   *)
(* of one request fall between the sends of another.                        *)
C21_NoCoordination ==
    [][\A r \in Slots :
          /\ (ArrivesNow(r) /\ isWhatsappReady) =>
                IF reqs'[r].req.route = "POST /send-message"
                THEN reqs'[r].pc = "dispatching" /\ Len(reqs'[r].calls) = 1
                ELSE reqs'[r].pc = "resolving" /\ reqs'[r].resolveCount = 1
          /\ Handles(r) => \A s \in Slots \ {r} : reqs'[s] = reqs[s]
          /\ (Handles(r) /\ reqs[r].pc = "dispatching" /\ variant = "sequential") =>
                \/ Len(reqs'[r].calls) = Len(reqs[r].calls) + 1
                \/ reqs'[r].pc = "done"]_vars

\* the text request of slot 1 has started its first send and not yet its
\* second, and the request of slot 2, received after it, has started and
\* finished its sends: they fall between two sends of the first request
C21_Witness ==
    /\ reqs[1].req.route = "POST /send-message"
    /\ reqs[1].pc = "dispatching"
    /\ Len(reqs[1].calls) = 1
    /\ Len(reqs[1].validNumbers) = 2
    /\ reqs[2].pc = "done"
    /\ reqs[2].calls # <<>>

-----------------------------------------------------------------------------
\* how many recipients of q equal to number have a send that settled as o
SettledAs(q, number, o) ==
    Cardinality({j \in 1..Len(q.ext) :
                    q.validNumbers[j] = number /\ q.ext[j] = o})

(* C22: the results of a dispatch are those of its own request: in every    *)
(* state, also with other requests being handled, the `sent` and `failed`   *)
(* lists of a request hold only recipients of that request, each as often   *)
(* as the request's own sends to it succeeded, respectively failed, and the *)
(* summary of an answered request covers exactly its validated recipients.  *)
C22_RequestScoped ==
    \A r \in Slots :
        LET q == reqs[r]
            lists == IF q.pc = "done" /\ q.response.hasSummary
                     THEN [sent |-> q.response.sent, failed |-> q.response.failed]
                     ELSE [sent |-> q.sent, failed |-> q.failed]
        IN  /\ \A k \in 1..Len(lists.sent) :
                   \E i \in 1..Len(q.validNumbers) :
                       lists.sent[k].to = ChatId(q.validNumbers[i])
            /\ \A k \in 1..Len(lists.failed) :
                   \E i \in 1..Len(q.validNumbers) :
                       lists.failed[k].to = ChatId(q.validNumbers[i])
            /\ \A i \in 1..Len(q.validNumbers) :
                   /\ Occurrences(ToList(lists.sent), ChatId(q.validNumbers[i]))
                          <= SettledAs(q, q.validNumbers[i], "ok")
                   /\ Occurrences(ToList(lists.failed), ChatId(q.validNumbers[i]))
                          <= SettledAs(q, q.validNumbers[i], "err")
            /\ (q.pc = "done" /\ q.response.hasSummary) =>
                   /\ Len(lists.sent) + Len(lists.failed) = Len(q.validNumbers)
                   /\ q.response.total_requested = Len(q.validNumbers)
                   /\ \A i \in 1..Len(q.validNumbers) :
                          /\ Occurrences(ToList(lists.sent), ChatId(q.validNumbers[i]))
                                 = SettledAs(q, q.validNumbers[i], "ok")
                          /\ Occurrences(ToList(lists.failed), ChatId(q.validNumbers[i]))
                                 = SettledAs(q, q.validNumbers[i], "err")

\* the request of slot 2 was received and answered while the batch of slot 1,
\* to another recipient list, was being sent; its one send succeeded while a
\* send of slot 1 to the same recipient failed
C22_Witness ==
    /\ reqs[1].pc = "dispatching"
    /\ reqs[2].pc = "done"
    /\ reqs[2].response.hasSummary
    /\ reqs[1].validNumbers # reqs[2].validNumbers
    /\ Len(reqs[1].validNumbers) = 2
    /\ reqs[1].ext[1] = "err"
    /\ reqs[2].response.total_sent = 1

-----------------------------------------------------------------------------
\* the header's second space-separated segment is the configured secret
CarriesSecret(h) ==
    /\ h # Undefined
    /\ Len(Split(h, " ")) >= 2
    /\ Split(h, " ")[2] = API_TOKEN

(* C23: every call of client.sendMessage and every media resolution is made *)
(* for a request that passed authenticateToken: in no state has a request   *)
(* whose token is missing or differs from the secret entered a handler,     *)
(* started a send or a media resolution, or obtained a summary, whatever    *)
(* the session state and its body.                                          *)
C23_SendsAreAuthenticated ==
    \A r \in Slots :
        LET q == reqs[r]
        IN  (q.pc # "idle" /\ q.req.route \in ProtectedRoutes
                /\ ~CarriesSecret(q.req.header)) =>
                /\ ~q.entered
                /\ q.calls = <<>>
                /\ q.resolveCount = 0
                /\ q.prom = <<>>
                /\ q.pc = "done"
                /\ q.response.status \in {401, 403}
                /\ ~q.response.hasSummary

\* a well-formed /send-media with a wrong token was refused by a ready
\* session without a media resolution or a send
C23_Witness ==
    \E r \in Slots :
        /\ reqs[r].req.route = "POST /send-media"
        /\ reqs[r].req.header = Bearer \o <<" ", "x">>
        /\ reqs[r].req.body = GoodBody
        /\ reqs[r].response.status = 403
        /\ reqs[r].resolveCount = 0
        /\ isWhatsappReady

-----------------------------------------------------------------------------
\* the answer the fixed order of checks gives a /send-message request, 0 for
\* a request that passes all five
FirstFailing(rq, ready) ==
    IF ~ready THEN 503
    ELSE IF ~rq.body.message.defined \/ rq.body.message.length = 0
               \/ rq.body.numbers \in {Undefined, <<>>}
    THEN 400
    ELSE IF rq.body.message.length > MAX_MESSAGE_LENGTH THEN 413
    ELSE IF KeptAt(rq.body.numbers) = {} THEN 400
    ELSE 0

(* C24: a /send-message request is answered by the first failing check in   *)
(* the order authentication (401 or 403), readiness (503), required fields  *)
(* (400), message length (413), valid recipient (400): a session that is    *)
(* not ready answers 503 also to an invalid body, an oversized message is   *)
(* answered 413 also without a valid recipient, and only a request that     *)
(* passes all five checks reaches the dispatch.                             *)
C24_CheckOrder ==
    [][\A r \in Slots :
          (ArrivesNow(r) /\ reqs'[r].req.route = "POST /send-message") =>
              LET q == reqs'[r]
                  expected == FirstFailing(q.req, isWhatsappReady)
              IN  IF ~CarriesSecret(q.req.header)
                  THEN q.pc = "done" /\ q.response.status \in {401, 403}
                       /\ q.calls = <<>>
                  ELSE IF expected # 0
                  THEN q.pc = "done" /\ q.response.status = expected
                       /\ q.nresponses = 1 /\ q.calls = <<>>
                  ELSE q.pc = "dispatching" /\ q.nresponses = 0
                       /\ Len(q.calls) = 1]_vars

\* an oversized message to a numbers field without a valid recipient was
\* answered 413
C24_Witness ==
    \E r \in Slots :
        /\ reqs[r].req.route = "POST /send-message"
        /\ reqs[r].response.status = 413
        /\ ~Falsy(reqs[r].req.body.numbers)
        /\ parseNumbers(reqs[r].req.body.numbers) = <<>>

\* a body without its fields was answered 503 by a session that is not ready
C24_WitnessNotReady ==
    \E r \in Slots :
        /\ reqs[r].req.route = "POST /send-message"
        /\ reqs[r].entered
        /\ reqs[r].response.status = 503
        /\ reqs[r].req.body.numbers = Undefined

-----------------------------------------------------------------------------
(* C25: the HTTP server is started at most once per process: a ready event  *)
(* that follows a disconnected event, or a repeated ready event, returns    *)
(* the session to Ready with the one listener still serving, without a      *)
(* second listen on the port.                                               *)
C25_ListenOnce ==
    [][ReadyEvent =>
          /\ isWhatsappReady'
          /\ listening'
          /\ proc' = "running"
          /\ fatal' = "none"]_vars

\* C25 for the first ready event of a process: it starts the one listener
C25_FirstReadyListens ==
    [][(ReadyEvent /\ ~listening) =>
          /\ isWhatsappReady'
          /\ listening'
          /\ proc' = "running"]_vars

-----------------------------------------------------------------------------
(* C26: whenever the readiness flag is false the stored client info is      *)
(* null, and a /status answered by a session that is not ready (a 503)      *)
(* carries clientInfo null.                                                 *)
C26_NoInfoWhenNotReady ==
    /\ ~isWhatsappReady => whatsappClientInfo = NullInfo
    /\ \A r \in Slots :
           (reqs[r].req.route = "GET /status" /\ reqs[r].response.status = 503) =>
               reqs[r].response.clientInfo = NullInfo

\* a session that had its client info was disconnected and then asked for
\* its status
C26_Witness ==
    \E r \in Slots :
        /\ reqs[r].req.route = "GET /status"
        /\ reqs[r].response.status = 503
        /\ reqs[r].response.clientInfo = NullInfo
        /\ proc = "running"
        /\ ~isWhatsappReady
        /\ whatsappClientInfo = NullInfo

====
